---- MODULE Spec2Model ----
(***************************************************************************)
(* WAL records processor (wal_records_processor.py, main.py).              *)
(*                                                                         *)
(* State: the processor's event list, its three join-key indexes, its      *)
(* insertable rows, the logger's warnings and the destination table; the   *)
(* position of main.py in create / load / merge / write.                   *)
(* load and merge_insertable_rows are for-loops: one step per iteration.   *)
(***************************************************************************)
EXTENDS Integers, Sequences, FiniteSets, TLC

(***************************************************************************)
(* Column values.  A JSON file holds null, numbers, strings and nested     *)
(* objects; a string may itself be JSON text.  A value is a tagged record: *)
(*   none     null / Python None                                           *)
(*   int      the integer n                                                *)
(*   str      a string that is not JSON text (n tells them apart)          *)
(*   numstr   the string of the decimal digits of n, e.g. "2"              *)
(*   quoted   the string that is the JSON text of the string Text(n)        *)
(*   nullstr  the string "null"                                            *)
(*   objstr   a string that is the JSON text of an object                  *)
(*   dict     a Python dict (unhashable)                                   *)
(***************************************************************************)
None == [tag |-> "none", n |-> 0]
Num(n) == [tag |-> "int", n |-> n]
Text(n) == [tag |-> "str", n |-> n]
NumStr(n) == [tag |-> "numstr", n |-> n]
Quoted(n) == [tag |-> "quoted", n |-> n]
NullStr == [tag |-> "nullstr", n |-> 0]
ObjStr(n) == [tag |-> "objstr", n |-> n]
Obj(n) == [tag |-> "dict", n |-> n]

\* hash(value) succeeds: a dict key or the argument of dict.get must be hashable
Hashable(value) == value.tag # "dict"

(***************************************************************************)
(* Column names, as their "."-separated segments.                          *)
(***************************************************************************)
EVENT_ID == <<"event_id">>
FLOW_ID == <<"flow_id">>
TRANSACTION_ID == <<"transaction_id">>
TOKEN_ID == <<"token_id">>
CREATED_AT == <<"created_at">>
TRANSACTION_TYPE == <<"transaction_type">>
PAYMENT_METHOD == <<"vault_options", "payment_method">>
THREE_D_SECURE == <<"three_d_secure_authentication">>

\* key.split(".")[-1]
LastSegmentFirst(key) == key[1]
LastSegment(key) == key[Len(key)]

Range(s) == {s[i] : i \in 1..Len(s)}
Min2(a, b) == IF a <= b THEN a ELSE b
MaxOf(S) == CHOOSE x \in S : \A y \in S : y <= x
MinOf(S) == CHOOSE x \in S : \A y \in S : x <= y

(***************************************************************************)
(* Python dicts, as functions.                                             *)
(***************************************************************************)
EmptyDict == [k \in {} |-> None]

\* dict.get(key): the value, or None
DictGet(d, key) == IF key \in DOMAIN d THEN d[key] ELSE None

\* d[key] = value
DictSetFirstWins(d, key, value) ==
    IF key \in DOMAIN d THEN d
    ELSE [k \in DOMAIN d \cup {key} |-> IF k = key THEN value ELSE d[k]]
DictSet(d, key, value) ==
    [k \in DOMAIN d \cup {key} |-> IF k = key THEN value ELSE d[k]]

\* d.update(other)
DictUpdateKeep(d, other) ==
    [k \in DOMAIN d \cup DOMAIN other |-> IF k \in DOMAIN d THEN d[k] ELSE other[k]]
DictUpdate(d, other) ==
    [k \in DOMAIN d \cup DOMAIN other |-> IF k \in DOMAIN other THEN other[k] ELSE d[k]]

\* dict(zip(names, values)): zip stops at the shorter list, a repeated name
\* keeps its last value
DictZip(names, values) ==
    LET n == Min2(Len(names), Len(values))
    IN  [k \in {names[i] : i \in 1..n} |->
            values[MaxOf({i \in 1..n : names[i] = k})]]

\* rows.get(key) of an index: None is <<>>, a row r is <<r>>
IndexGet(rows, key) == IF key \in DOMAIN rows THEN <<rows[key]>> ELSE <<>>

(***************************************************************************)
(* WALRow                                                                  *)
(***************************************************************************)
\* json.loads(value); JSONDecodeError and TypeError leave the value as it is
transform_to_dict_if_json(value) ==
    CASE value.tag = "numstr" -> Num(value.n)
      [] value.tag = "quoted" -> Text(value.n)
      [] value.tag = "nullstr" -> None
      [] value.tag = "objstr" -> Obj(value.n)
      [] OTHER -> value

from_dict(data) ==
    [kind |-> data.kind,
     schema |-> data.schema,
     table |-> data.table,
     column_names |-> data.columnnames,
     column_types |-> data.columntypes,
     column_values |-> data.columnvalues,
     column_names_values |->
        DictZip(data.columnnames,
                [i \in 1..Len(data.columnvalues) |->
                    transform_to_dict_if_json(data.columnvalues[i])])]

\* The body shared by the three get_join_key methods:
\*   value_index = self.column_names.index(column)    ValueError when absent
\*   return self.column_values[value_index]           IndexError when too short
get_join_key(self, column) ==
    IF column \notin Range(self.column_names)
    THEN [error |-> "ValueError", value |-> None]
    ELSE LET value_index ==
                 MinOf({i \in 1..Len(self.column_names) : self.column_names[i] = column})
         IN  IF value_index > Len(self.column_values)
             THEN [error |-> "IndexError", value |-> None]
             ELSE [error |-> "", value |-> self.column_values[value_index]]

TransactionsRow_get_join_key(self) == get_join_key(self, TRANSACTION_ID)
TransactionRequestsRow_get_join_key(self) == get_join_key(self, FLOW_ID)
PaymentInstrumentTokenDataRow_get_join_key(self) == get_join_key(self, TOKEN_ID)

\* { key.split(".")[-1]: self.column_names_values.get(key) for key in keys }
InsertableValues(self, keys) ==
    [f \in {LastSegment(keys[i]) : i \in 1..Len(keys)} |->
        DictGet(self.column_names_values,
                keys[MaxOf({i \in 1..Len(keys) : LastSegment(keys[i]) = f})])]

EventV2DataRow_get_insertable_values(self) ==
    InsertableValues(self,
        <<EVENT_ID, FLOW_ID, CREATED_AT, <<"transaction_lifecycle_event">>,
          <<"error_details", "decline_reason">>, <<"error_details", "decline_type">> >>)

TransactionsRow_get_insertable_values(self) ==
    InsertableValues(self,
        <<TRANSACTION_ID, TRANSACTION_TYPE, CREATED_AT, <<"amount">>,
          <<"currency_code">>, <<"processor_merchant_account_id">> >>)

TransactionRequestsRow_get_insertable_values(self) ==
    InsertableValues(self, <<PAYMENT_METHOD>>)

PaymentInstrumentTokenDataRow_get_insertable_values(self) ==
    InsertableValues(self,
        <<THREE_D_SECURE, <<"payment_instrument_type">>, <<"vault_data", "customer_id">> >>)

(***************************************************************************)
(* InsertableRow: fifteen fields, each None unless given.                  *)
(***************************************************************************)
InsertableFields ==
    <<"event_id", "flow_id", "created_at", "transaction_lifecycle_event",
      "decline_reason", "decline_type", "payment_method", "transaction_id",
      "transaction_type", "amount", "currency_code",
      "processor_merchant_account_id", "three_d_secure_authentication",
      "payment_instrument_type", "customer_id">>

\* InsertableRow(**merged_row)
InsertableRow(merged_row) ==
    [f \in Range(InsertableFields) |-> DictGet(merged_row, f)]


\* self.insertable_rows.append(InsertableRow(**merged_row))
append_insertable_row_inner_join(insertable_rows_, merged_row) ==
    IF "transaction_id" \in DOMAIN merged_row
    THEN Append(insertable_rows_, InsertableRow(merged_row))
    ELSE insertable_rows_
append_insertable_row(insertable_rows_, merged_row) ==
    Append(insertable_rows_, InsertableRow(merged_row))

(***************************************************************************)
(* WalRecordsProcessor.load: the body of "for row in data".                *)
(* self is the record of the processor's containers; the result is the     *)
(* exception raised ("" for none) and the containers afterwards.           *)
(***************************************************************************)
KnownTables ==
    {"event_v2_data", "transaction", "transaction_request",
     "payment_instrument_token_data"}

\* match row["table"]: the case taken, "_" for the default case
match_table_default_event(table) ==
    IF table \in KnownTables THEN table ELSE "event_v2_data"
match_table(table) == IF table \in KnownTables THEN table ELSE "_"

\* rows[row.get_join_key()] = row
store_row(rows, join_key, row) ==
    IF join_key.error # ""
    THEN [error |-> join_key.error, rows |-> rows]
    ELSE IF ~Hashable(join_key.value)
    THEN [error |-> "TypeError", rows |-> rows]
    ELSE [error |-> "", rows |-> DictSet(rows, join_key.value, row)]

load_row(self, element) ==
    LET row == element.change[1]
        case == match_table(row.table)
        wal_row == from_dict(row)
    IN  CASE case = "event_v2_data" ->
               [error |-> "",
                self |-> [self EXCEPT !.event_v2_data_rows = Append(@, wal_row)]]
          [] case = "transaction" ->
               LET r == store_row(self.transaction_rows,
                                  TransactionsRow_get_join_key(wal_row), wal_row)
               IN  [error |-> r.error,
                    self |-> [self EXCEPT !.transaction_rows = r.rows]]
          [] case = "transaction_request" ->
               LET r == store_row(self.transaction_request_rows,
                                  TransactionRequestsRow_get_join_key(wal_row), wal_row)
               IN  [error |-> r.error,
                    self |-> [self EXCEPT !.transaction_request_rows = r.rows]]
          [] case = "payment_instrument_token_data" ->
               LET r == store_row(self.payment_instrument_token_data_rows,
                                  PaymentInstrumentTokenDataRow_get_join_key(wal_row),
                                  wal_row)
               IN  [error |-> r.error,
                    self |-> [self EXCEPT !.payment_instrument_token_data_rows = r.rows]]
          [] OTHER ->
               [error |-> "",
                self |-> [self EXCEPT !.warnings = Append(@, row.table)]]

(***************************************************************************)
(* WalRecordsProcessor.merge_insertable_rows: the body of                  *)
(* "for event_v2_data_row in self.event_v2_data_rows".                     *)
(***************************************************************************)
\* the conditional expression of lines 276-282: whether
\* payment_instrument_token_data_rows.get is called, and with which key
token_lookup_unconditional(transaction_request_row) ==
    [attempted |-> TRUE,
     key |-> IF transaction_request_row # <<>>
             THEN DictGet(transaction_request_row[1].column_names_values, TOKEN_ID)
             ELSE None]
token_lookup(transaction_request_row) ==
    IF transaction_request_row # <<>>
    THEN [attempted |-> TRUE,
          key |-> DictGet(transaction_request_row[1].column_names_values, TOKEN_ID)]
    ELSE [attempted |-> FALSE, key |-> None]

merge_event(self, event_v2_data_row) ==
    LET merged0 == EventV2DataRow_get_insertable_values(event_v2_data_row)
        transaction_key ==
            DictGet(event_v2_data_row.column_names_values, TRANSACTION_ID)
        transaction_row == IndexGet(self.transaction_rows, transaction_key)
        merged1 ==
            IF transaction_row # <<>>
            THEN DictUpdate(merged0,
                            TransactionsRow_get_insertable_values(transaction_row[1]))
            ELSE merged0
        flow_key == DictGet(event_v2_data_row.column_names_values, FLOW_ID)
        transaction_request_row == IndexGet(self.transaction_request_rows, flow_key)
        merged2 ==
            IF transaction_request_row # <<>>
            THEN DictUpdate(merged1,
                            TransactionRequestsRow_get_insertable_values(
                                transaction_request_row[1]))
            ELSE merged1
        lookup == token_lookup(transaction_request_row)
        payment_instrument_token_data_row ==
            IF lookup.attempted
            THEN IndexGet(self.payment_instrument_token_data_rows, lookup.key)
            ELSE <<>>
        merged3 ==
            IF payment_instrument_token_data_row # <<>>
            THEN DictUpdate(merged2,
                            PaymentInstrumentTokenDataRow_get_insertable_values(
                                payment_instrument_token_data_row[1]))
            ELSE merged2
    IN  IF ~Hashable(transaction_key) \/ ~Hashable(flow_key)
           \/ (lookup.attempted /\ ~Hashable(lookup.key))
        THEN [error |-> "TypeError", merged_row |-> merged0, token_lookup |-> FALSE]
        ELSE [error |-> "", merged_row |-> merged3, token_lookup |-> lookup.attempted]

(***************************************************************************)
(* Destination table                                                       *)
(***************************************************************************)
\* the annotations of InsertableRow
InsertableTypes ==
    [f \in Range(InsertableFields) |->
        IF f \in {"event_id", "flow_id", "transaction_id", "amount",
                  "processor_merchant_account_id", "customer_id"}
        THEN "int" ELSE "str"]

convert_python_type_to_sqlite(python_type) ==
    CASE python_type \in {"int", "bool"} -> "INTEGER"
      [] python_type = "float" -> "REAL"
      [] python_type = "bytes" -> "BLOB"
      [] OTHER -> "TEXT"

\* astuple(row)
astuple(row) == [k \in 1..Len(InsertableFields) |-> row[InsertableFields[k]]]

(***************************************************************************)
(* State                                                                   *)
(***************************************************************************)
VARIABLES
    pc,                 \* where main.py is: create, load, loaded, merge, merged,
                        \* written, raised
    data,               \* json.load(file): the batch of change records
    i,                  \* load: index of the next element of data
    j,                  \* merge_insertable_rows: index of the next event row
    event_v2_data_rows,
    transaction_rows,
    transaction_request_rows,
    payment_instrument_token_data_rows,
    insertable_rows,
    warnings,           \* logger.warning calls: the unknown table names
    token_lookups,      \* per merged event: was the token index looked up
    error,              \* the exception that reached the caller, "" for none
    runs,               \* completed calls of load
    destination_table,  \* create_table's column definitions
    database            \* batch_insert's value tuples

vars == <<pc, data, i, j, event_v2_data_rows, transaction_rows,
          transaction_request_rows, payment_instrument_token_data_rows,
          insertable_rows, warnings, token_lookups, error, runs,
          destination_table, database>>

Self ==
    [event_v2_data_rows |-> event_v2_data_rows,
     transaction_rows |-> transaction_rows,
     transaction_request_rows |-> transaction_request_rows,
     payment_instrument_token_data_rows |-> payment_instrument_token_data_rows,
     warnings |-> warnings]


(***************************************************************************)
(* Batches of change records                                               *)
(***************************************************************************)
MaxBatch == 4      \* records in a batch
MaxRuns == 2       \* calls of load on the same batch

\* one element of the json file: {"change": [{...}]}
Change(table, columnnames, columnvalues) ==
    [change |->
        << [kind |-> "insert",
            schema |-> "public",
            table |-> table,
            columnnames |-> columnnames,
            columntypes |-> [k \in 1..Len(columnnames) |-> "text"],
            columnvalues |-> columnvalues] >>]

SALE == Text(1)
REFUND == Text(2)
CREDIT_CARD == Text(3)
PAYPAL == Text(4)
AUTHENTICATED == Text(5)
FAILED == Text(6)
MORNING == Text(7)
NOON == Text(8)
EVENING == Text(9)

EventColumns == <<EVENT_ID, TRANSACTION_ID, FLOW_ID, CREATED_AT>>
TransactionColumns == <<TRANSACTION_ID, TRANSACTION_TYPE, CREATED_AT>>
RequestColumns == <<FLOW_ID, PAYMENT_METHOD, TOKEN_ID>>
TokenColumns == <<TOKEN_ID, THREE_D_SECURE>>

\* records that make load and merge raise
TransactionWithoutKey == Change("transaction", <<TRANSACTION_TYPE>>, <<SALE>>)
EventWithObjectKey ==
    Change("event_v2_data", <<EVENT_ID, TRANSACTION_ID>>, <<Num(3), ObjStr(1)>>)
UnknownRecord ==
    Change("unknown_table", EventColumns, <<Num(4), Num(1), Num(1), MORNING>>)

\* the join chain: event 1 -> transaction "1", request 1 -> token 2;
\* event 2 -> no transaction 2, no request 2, token 2 in the token index
RecordsJoin ==
    { Change("event_v2_data", EventColumns, <<Num(1), NumStr(1), Num(1), MORNING>>),
      Change("event_v2_data", EventColumns, <<Num(2), Num(2), Num(2), MORNING>>),
      Change("transaction", TransactionColumns, <<Num(1), SALE, NOON>>),
      Change("transaction_request", RequestColumns, <<Num(1), CREDIT_CARD, Num(2)>>),
      Change("payment_instrument_token_data", TokenColumns, <<Num(2), AUTHENTICATED>>),
      UnknownRecord, TransactionWithoutKey, EventWithObjectKey }

\* null keys, keys that are numeric strings, lists of different lengths
RecordsKeys ==
    { Change("event_v2_data", <<EVENT_ID, FLOW_ID>>, <<Num(1), Num(1)>>),
      Change("transaction", TransactionColumns, <<None, SALE, NOON>>),
      Change("event_v2_data", EventColumns, <<Num(2), NumStr(1), NumStr(1), MORNING>>),
      Change("transaction", TransactionColumns, <<NumStr(1), REFUND, EVENING>>),
      Change("event_v2_data", <<EVENT_ID, FLOW_ID>>, <<Num(3)>>),
      Change("transaction", <<TRANSACTION_TYPE, TRANSACTION_ID>>, <<SALE>>),
      UnknownRecord, TransactionWithoutKey, EventWithObjectKey }

\* rows of one table that share a join key
RecordsReload ==
    { Change("transaction", TransactionColumns, <<Num(1), SALE, NOON>>),
      Change("transaction", TransactionColumns, <<Num(1), REFUND, EVENING>>),
      Change("transaction_request", RequestColumns, <<Num(1), CREDIT_CARD, Num(2)>>),
      Change("transaction_request", RequestColumns, <<Num(1), PAYPAL, Num(1)>>),
      Change("payment_instrument_token_data", TokenColumns, <<Num(2), AUTHENTICATED>>),
      Change("payment_instrument_token_data", TokenColumns, <<Num(2), FAILED>>),
      TransactionWithoutKey }

Batches(records) == UNION {[1..n -> records] : n \in 0..MaxBatch}

(***************************************************************************)
(* Init: WalRecordsProcessor() with its default_factory fields, main.py    *)
(* about to call create_destination_table.                                 *)
(***************************************************************************)
InitWith(records) ==
    /\ data \in Batches(records)
    /\ pc = "create"
    /\ i = 1
    /\ j = 1
    /\ event_v2_data_rows = <<>>
    /\ transaction_rows = EmptyDict
    /\ transaction_request_rows = EmptyDict
    /\ payment_instrument_token_data_rows = EmptyDict
    /\ insertable_rows = <<>>
    /\ warnings = <<>>
    /\ token_lookups = <<>>
    /\ error = ""
    /\ runs = 0
    /\ destination_table = <<>>
    /\ database = <<>>

Init == InitWith(RecordsJoin)
InitKeys == InitWith(RecordsKeys)
InitReload == InitWith(RecordsReload)

(***************************************************************************)
(* Actions                                                                 *)
(***************************************************************************)
create_destination_table ==
    /\ pc = "create"
    /\ destination_table' =
          [k \in 1..Len(InsertableFields) |->
              [name |-> InsertableFields[k],
               type |-> convert_python_type_to_sqlite(InsertableTypes[InsertableFields[k]]),
               default |-> "NULL"]]
    /\ pc' = "load"
    /\ UNCHANGED <<data, i, j, event_v2_data_rows, transaction_rows,
                   transaction_request_rows, payment_instrument_token_data_rows,
                   insertable_rows, warnings, token_lookups, error, runs, database>>

\* one iteration of load's loop that raises nothing
LoadRow ==
    /\ pc = "load"
    /\ i <= Len(data)
    /\ LET r == load_row(Self, data[i])
       IN  /\ r.error = ""
           /\ event_v2_data_rows' = r.self.event_v2_data_rows
           /\ transaction_rows' = r.self.transaction_rows
           /\ transaction_request_rows' = r.self.transaction_request_rows
           /\ payment_instrument_token_data_rows' =
                  r.self.payment_instrument_token_data_rows
           /\ warnings' = r.self.warnings
    /\ i' = i + 1
    /\ UNCHANGED <<pc, data, j, insertable_rows, token_lookups, error, runs,
                   destination_table, database>>

\* one iteration of load's loop that raises: the exception reaches main.py
LoadRaises ==
    /\ pc = "load"
    /\ i <= Len(data)
    /\ LET r == load_row(Self, data[i])
       IN  /\ r.error # ""
           /\ error' = r.error
    /\ pc' = "raised"
    /\ UNCHANGED <<data, i, j, event_v2_data_rows, transaction_rows,
                   transaction_request_rows, payment_instrument_token_data_rows,
                   insertable_rows, warnings, token_lookups, runs,
                   destination_table, database>>

LoadReturns ==
    /\ pc = "load"
    /\ i > Len(data)
    /\ pc' = "loaded"
    /\ runs' = runs + 1
    /\ UNCHANGED <<data, i, j, event_v2_data_rows, transaction_rows,
                   transaction_request_rows, payment_instrument_token_data_rows,
                   insertable_rows, warnings, token_lookups, error,
                   destination_table, database>>

\* load called again on the same file
Reload ==
    /\ pc = "loaded"
    /\ runs < MaxRuns
    /\ pc' = "load"
    /\ i' = 1
    /\ UNCHANGED <<data, j, event_v2_data_rows, transaction_rows,
                   transaction_request_rows, payment_instrument_token_data_rows,
                   insertable_rows, warnings, token_lookups, error, runs,
                   destination_table, database>>

\* one iteration of merge_insertable_rows' loop that raises nothing
MergeRow ==
    /\ pc \in {"loaded", "merge"}
    /\ j <= Len(event_v2_data_rows)
    /\ LET r == merge_event(Self, event_v2_data_rows[j])
       IN  /\ r.error = ""
           /\ insertable_rows' = append_insertable_row(insertable_rows, r.merged_row)
           /\ token_lookups' = Append(token_lookups, r.token_lookup)
    /\ j' = j + 1
    /\ pc' = "merge"
    /\ UNCHANGED <<data, i, event_v2_data_rows, transaction_rows,
                   transaction_request_rows, payment_instrument_token_data_rows,
                   warnings, error, runs, destination_table, database>>

MergeRaises ==
    /\ pc \in {"loaded", "merge"}
    /\ j <= Len(event_v2_data_rows)
    /\ LET r == merge_event(Self, event_v2_data_rows[j])
       IN  /\ r.error # ""
           /\ error' = r.error
    /\ pc' = "raised"
    /\ UNCHANGED <<data, i, j, event_v2_data_rows, transaction_rows,
                   transaction_request_rows, payment_instrument_token_data_rows,
                   insertable_rows, warnings, token_lookups, runs,
                   destination_table, database>>

MergeReturns ==
    /\ pc \in {"loaded", "merge"}
    /\ j > Len(event_v2_data_rows)
    /\ pc' = "merged"
    /\ UNCHANGED <<data, i, j, event_v2_data_rows, transaction_rows,
                   transaction_request_rows, payment_instrument_token_data_rows,
                   insertable_rows, warnings, token_lookups, error, runs,
                   destination_table, database>>

write_to_database ==
    /\ pc = "merged"
    /\ database' = [k \in 1..Len(insertable_rows) |-> astuple(insertable_rows[k])]
    /\ pc' = "written"
    /\ UNCHANGED <<data, i, j, event_v2_data_rows, transaction_rows,
                   transaction_request_rows, payment_instrument_token_data_rows,
                   insertable_rows, warnings, token_lookups, error, runs,
                   destination_table>>

\* main.py: create_destination_table, load, merge_insertable_rows, write_to_database
Next ==
    \/ create_destination_table
    \/ LoadRow
    \/ LoadRaises
    \/ LoadReturns
    \/ MergeRow
    \/ MergeRaises
    \/ MergeReturns
    \/ write_to_database

\* the build phase alone, run up to MaxRuns times
NextReload ==
    \/ create_destination_table
    \/ LoadRow
    \/ LoadRaises
    \/ LoadReturns
    \/ Reload

Spec == Init /\ [][Next]_vars
SpecKeys == InitKeys /\ [][Next]_vars
SpecReload == InitReload /\ [][NextReload]_vars


(***************************************************************************)
(* load and merge_insertable_rows as functions of a whole batch            *)
(***************************************************************************)
EmptySelf ==
    [event_v2_data_rows |-> <<>>,
     transaction_rows |-> EmptyDict,
     transaction_request_rows |-> EmptyDict,
     payment_instrument_token_data_rows |-> EmptyDict,
     warnings |-> <<>>]

RECURSIVE load_all(_, _)
load_all(self, batch) ==
    IF batch = <<>> THEN [error |-> "", self |-> self]
    ELSE LET r == load_row(self, Head(batch))
         IN  IF r.error # "" THEN r ELSE load_all(r.self, Tail(batch))

RECURSIVE merge_all(_, _, _)
merge_all(self, events, rows) ==
    IF events = <<>> THEN [error |-> "", rows |-> rows]
    ELSE LET r == merge_event(self, Head(events))
         IN  IF r.error # "" THEN [error |-> r.error, rows |-> rows]
             ELSE merge_all(self, Tail(events),
                            append_insertable_row(rows, r.merged_row))

TableOf(element) == element.change[1].table
HasKnownTable(element) == TableOf(element) \in KnownTables
KnownOnly(batch) == SelectSeq(batch, HasKnownTable)
HasUnknownTable(element) == TableOf(element) \notin KnownTables
UnknownNames(batch) ==
    LET u == SelectSeq(batch, HasUnknownTable)
    IN  [k \in 1..Len(u) |-> TableOf(u[k])]

\* the records load has gone through without raising, in the first run
Processed == SubSeq(data, 1, i - 1)

WellFormed(element) ==
    Len(element.change[1].columnnames) = Len(element.change[1].columnvalues)

\* the value a record carries in a column (first occurrence of the name)
HasColumn(element, column) ==
    \E k \in 1..Len(element.change[1].columnnames) :
        /\ element.change[1].columnnames[k] = column
        /\ k <= Len(element.change[1].columnvalues)
ColumnValue(element, column) ==
    LET rec == element.change[1]
    IN  rec.columnvalues[MinOf({k \in 1..Len(rec.columnnames) :
                                    rec.columnnames[k] = column})]

\* the event's values as the join reads them
EventKey(k, column) == DictGet(event_v2_data_rows[k].column_names_values, column)

TokenFieldsNone(row) ==
    /\ row.three_d_secure_authentication = None
    /\ row.payment_instrument_type = None
    /\ row.customer_id = None

TransactionFieldsNone(row) ==
    /\ row.transaction_id = None
    /\ row.transaction_type = None
    /\ row.amount = None
    /\ row.currency_code = None
    /\ row.processor_merchant_account_id = None

(***************************************************************************)
(* C1  Cascading skip: an output row whose event's flow_id is no key of    *)
(* the transaction_request index has its three token-data fields None, and *)
(* the token index was not looked up for it, whatever the token index      *)
(* holds.                                                                  *)
(***************************************************************************)
C1_CascadingSkip ==
    \A k \in 1..Len(insertable_rows) :
        EventKey(k, FLOW_ID) \notin DOMAIN transaction_request_rows
        => /\ TokenFieldsNone(insertable_rows[k])
           /\ ~token_lookups[k]

\* an event merged with no request for its flow_id, while the token index
\* has a row under that very key
C1_Witness ==
    \E k \in 1..Len(insertable_rows) :
        /\ EventKey(k, FLOW_ID) \notin DOMAIN transaction_request_rows
        /\ EventKey(k, FLOW_ID) \in DOMAIN payment_instrument_token_data_rows

(***************************************************************************)
(* C2  Left-outer join: while merge_insertable_rows has raised nothing,    *)
(* every event it went through has exactly one output row, in event-list   *)
(* order with the event's event_id; once it returned there are as many     *)
(* output rows as event rows.                                              *)
(***************************************************************************)
C2_LeftOuterJoin ==
    /\ pc \in {"loaded", "merge"} => Len(insertable_rows) = j - 1
    /\ pc \in {"merged", "written"} => Len(insertable_rows) = Len(event_v2_data_rows)
    /\ Len(insertable_rows) <= Len(event_v2_data_rows)
    /\ \A k \in 1..Len(insertable_rows) :
           insertable_rows[k].event_id = EventKey(k, EVENT_ID)

\* merge returned over two events with different ids, one of which matched
\* no hop at all and one of which matched a transaction
C2_Witness ==
    /\ pc = "merged"
    /\ \E k, m \in 1..Len(insertable_rows) :
           /\ k < m
           /\ insertable_rows[k].event_id # insertable_rows[m].event_id
           /\ EventKey(k, TRANSACTION_ID) \notin DOMAIN transaction_rows
           /\ EventKey(k, FLOW_ID) \notin DOMAIN transaction_request_rows
           /\ EventKey(m, TRANSACTION_ID) \in DOMAIN transaction_rows

FullChain(k) ==
    /\ EventKey(k, TRANSACTION_ID) \in DOMAIN transaction_rows
    /\ EventKey(k, FLOW_ID) \in DOMAIN transaction_request_rows
    /\ DictGet(transaction_request_rows[EventKey(k, FLOW_ID)].column_names_values,
               TOKEN_ID) \in DOMAIN payment_instrument_token_data_rows

(***************************************************************************)
(* C3  Full chain: when the event's transaction_id and flow_id (from its   *)
(* derived mapping) are keys of the transaction and transaction_request    *)
(* indexes and the request row's own token_id is a key of the token index, *)
(* the output row has the event's event_id and flow_id, the transaction    *)
(* row's fields, the request's payment_method and the token row's fields.  *)
(***************************************************************************)
C3_FullChainJoin ==
    \A k \in 1..Len(insertable_rows) :
        FullChain(k) =>
            LET out == insertable_rows[k]
                transaction ==
                    transaction_rows[EventKey(k, TRANSACTION_ID)].column_names_values
                request ==
                    transaction_request_rows[EventKey(k, FLOW_ID)].column_names_values
                token ==
                    payment_instrument_token_data_rows[DictGet(request, TOKEN_ID)]
                        .column_names_values
            IN  /\ out.event_id = EventKey(k, EVENT_ID)
                /\ out.flow_id = EventKey(k, FLOW_ID)
                /\ out.transaction_id = DictGet(transaction, TRANSACTION_ID)
                /\ out.transaction_type = DictGet(transaction, TRANSACTION_TYPE)
                /\ out.amount = DictGet(transaction, <<"amount">>)
                /\ out.currency_code = DictGet(transaction, <<"currency_code">>)
                /\ out.processor_merchant_account_id =
                       DictGet(transaction, <<"processor_merchant_account_id">>)
                /\ out.payment_method = DictGet(request, PAYMENT_METHOD)
                /\ out.three_d_secure_authentication = DictGet(token, THREE_D_SECURE)
                /\ out.payment_instrument_type =
                       DictGet(token, <<"payment_instrument_type">>)
                /\ out.customer_id = DictGet(token, <<"vault_data", "customer_id">>)

\* a full chain whose event carries its transaction_id as a numeric string
\* (the derived value differs from the positional one) and whose token key
\* differs from the flow key
C3_Witness ==
    \E k \in 1..Len(insertable_rows) :
        /\ FullChain(k)
        /\ get_join_key(event_v2_data_rows[k], TRANSACTION_ID).value
               # EventKey(k, TRANSACTION_ID)
        /\ insertable_rows[k].payment_method = CREDIT_CARD
        /\ insertable_rows[k].three_d_secure_authentication = AUTHENTICATED
        /\ insertable_rows[k].transaction_type = SALE

(***************************************************************************)
(* C6  Overwrite on merge: when the event row and the transaction row it   *)
(* matched both have a created_at column, the output row's created_at is   *)
(* the transaction row's.                                                  *)
(***************************************************************************)
C6_OverwriteOnMerge ==
    \A k \in 1..Len(insertable_rows) :
        (/\ EventKey(k, TRANSACTION_ID) \in DOMAIN transaction_rows
         /\ CREATED_AT \in DOMAIN event_v2_data_rows[k].column_names_values
         /\ CREATED_AT \in DOMAIN
                transaction_rows[EventKey(k, TRANSACTION_ID)].column_names_values)
        => insertable_rows[k].created_at =
               transaction_rows[EventKey(k, TRANSACTION_ID)]
                   .column_names_values[CREATED_AT]

\* a merged event whose created_at differs from its transaction's
C6_Witness ==
    \E k \in 1..Len(insertable_rows) :
        /\ EventKey(k, TRANSACTION_ID) \in DOMAIN transaction_rows
        /\ EventKey(k, CREATED_AT) = MORNING
        /\ insertable_rows[k].created_at = NOON


(***************************************************************************)
(* C4  Null-key hops are skipped: an output row whose event has no         *)
(* transaction_id (absent or null) has no transaction field set; one whose *)
(* event has no flow_id has no payment_method and no token field set; one  *)
(* whose matched request has no token_id has no token field set.           *)
(***************************************************************************)
C4_NullKeyHopsSkipped ==
    \A k \in 1..Len(insertable_rows) :
        /\ EventKey(k, TRANSACTION_ID) = None
               => TransactionFieldsNone(insertable_rows[k])
        /\ EventKey(k, FLOW_ID) = None
               => /\ insertable_rows[k].payment_method = None
                  /\ TokenFieldsNone(insertable_rows[k])
        /\ (/\ EventKey(k, FLOW_ID) \in DOMAIN transaction_request_rows
            /\ DictGet(transaction_request_rows[EventKey(k, FLOW_ID)]
                           .column_names_values, TOKEN_ID) = None)
               => TokenFieldsNone(insertable_rows[k])

LastWins(records, table, column) ==
    LET of_table == {k \in 1..Len(records) : TableOf(records[k]) = table}
    IN  [key \in {ColumnValue(records[k], column) : k \in of_table} |->
            from_dict(records[MaxOf({k \in of_table :
                          ColumnValue(records[k], column) = key})].change[1])]

IndexesAre(records) ==
    /\ transaction_rows = LastWins(records, "transaction", TRANSACTION_ID)
    /\ transaction_request_rows = LastWins(records, "transaction_request", FLOW_ID)
    /\ payment_instrument_token_data_rows =
           LastWins(records, "payment_instrument_token_data", TOKEN_ID)

(***************************************************************************)
(* C5  Last write wins: each index maps exactly the join keys of the       *)
(* records load has gone through so far (over all its runs), each to the   *)
(* row parsed from the last of them of that table with that key; whenever  *)
(* load has returned, after one run or more, that is the last record of    *)
(* the batch with that key.                                                *)
(***************************************************************************)
C5_LastWriteWins ==
    /\ IndexesAre((IF runs >= 1 THEN data ELSE <<>>) \o Processed)
    /\ pc = "loaded" => IndexesAre(data)

\* load has returned twice over a batch that has two different transaction
\* records under one key, and the index holds the later one
C5_Witness ==
    /\ runs >= 2
    /\ pc = "loaded"
    /\ \E k, m \in 1..Len(data) :
           /\ k < m
           /\ TableOf(data[k]) = "transaction"
           /\ TableOf(data[m]) = "transaction"
           /\ data[k] # data[m]
           /\ ColumnValue(data[k], TRANSACTION_ID) = ColumnValue(data[m], TRANSACTION_ID)
           /\ \A n \in (m + 1)..Len(data) : TableOf(data[n]) # "transaction"
           /\ transaction_rows[ColumnValue(data[m], TRANSACTION_ID)]
                  = from_dict(data[m].change[1])

(***************************************************************************)
(* C7  A record of a known table whose columnnames and columnvalues differ *)
(* in length makes load fail with MalformedRecordError at that record:     *)
(* load never gets past it.                                                *)
(***************************************************************************)
C7_MalformedRecordFails ==
    \A k \in 1..Len(data) :
        (HasKnownTable(data[k]) /\ ~WellFormed(data[k]))
        => /\ i <= k
           /\ (pc = "raised" /\ i = k) => error = "MalformedRecordError"

(***************************************************************************)
(* C8  Unknown tables are dropped: the event list and the indexes are      *)
(* those of the records gone through with the unknown-table records        *)
(* removed, each unknown record has left one warning, load never raises at *)
(* an unknown record, and the output rows are those of the batch without   *)
(* its unknown records.                                                    *)
(***************************************************************************)
C8_UnknownTablesDropped ==
    LET r == load_all(EmptySelf, KnownOnly(Processed))
    IN  /\ r.error = ""
        /\ event_v2_data_rows = r.self.event_v2_data_rows
        /\ transaction_rows = r.self.transaction_rows
        /\ transaction_request_rows = r.self.transaction_request_rows
        /\ payment_instrument_token_data_rows =
               r.self.payment_instrument_token_data_rows
        /\ warnings = UnknownNames(Processed)
        /\ (pc = "raised" /\ i <= Len(data)) => HasKnownTable(data[i])
        /\ pc \in {"merged", "written"} =>
               LET whole == load_all(EmptySelf, KnownOnly(data))
               IN  insertable_rows =
                       merge_all(whole.self, whole.self.event_v2_data_rows, <<>>).rows

\* merge returned over a batch with an unknown-table record followed by an
\* event record, which has its output row
C8_Witness ==
    /\ pc = "merged"
    /\ Len(insertable_rows) >= 1
    /\ Len(warnings) >= 1
    /\ \E k, m \in 1..Len(data) :
           /\ k < m
           /\ HasUnknownTable(data[k])
           /\ TableOf(data[m]) = "event_v2_data"

(***************************************************************************)
(* C9  No failure on well-formed input: when every record of the batch has *)
(* columnnames and columnvalues of equal length, neither load nor          *)
(* merge_insertable_rows raises.                                           *)
(***************************************************************************)
C9_NoFailureOnWellFormed ==
    (\A k \in 1..Len(data) : WellFormed(data[k])) => pc # "raised"

(***************************************************************************)
(* C10  Key consistency: in a well-formed batch, an output row whose event *)
(* carries a non-null value in its transaction_id column that some         *)
(* transaction record carries too has the fields of the last such          *)
(* transaction record.                                                     *)
(***************************************************************************)
C10_KeyConsistency ==
    (\A n \in 1..Len(data) : WellFormed(data[n])) =>
    \A k \in 1..Len(insertable_rows) :
        LET event == get_join_key(event_v2_data_rows[k], TRANSACTION_ID)
            same == {m \in 1..Len(data) :
                        /\ TableOf(data[m]) = "transaction"
                        /\ HasColumn(data[m], TRANSACTION_ID)
                        /\ event.error = ""
                        /\ event.value # None
                        /\ ColumnValue(data[m], TRANSACTION_ID) = event.value}
        IN  same # {} =>
                LET transaction == from_dict(data[MaxOf(same)].change[1])
                IN  /\ insertable_rows[k].transaction_id =
                           DictGet(transaction.column_names_values, TRANSACTION_ID)
                    /\ insertable_rows[k].transaction_type =
                           DictGet(transaction.column_names_values, TRANSACTION_TYPE)

====
